---------------------------- MODULE Spec2Model ----------------------------
(***************************************************************************)
(* A model of the Karachi PM2.5 pipeline: timestamp parsing in the ingest, *)
(* feature-build and cleanup scripts, the raw / feature / forecast         *)
(* collections with their upserts, the on-demand predictor's horizon       *)
(* alignment, the 72h forecast materializer and the PM2.5 -> US AQI        *)
(* conversion.                                                             *)
(*                                                                         *)
(* Conventions                                                             *)
(*  - An instant is a whole number of minutes since the start of the       *)
(*    modelled calendar; hour k starts at minute 60*k.                     *)
(*  - A concentration is a whole number of 1e-5 ug/m3 ("c5" units), so     *)
(*    12.1 ug/m3 is 1210000.                                               *)
(*  - A Python None / pandas NaN / NaT is the empty sequence <<>> and a    *)
(*    present value x is <<x>>.                                            *)
(***************************************************************************)
EXTENDS Integers, Sequences, FiniteSets, TLC

VARIABLES
    aqiIn,      \* pm25_to_aqi_us: the argument (c5 units)
    aqiOut,     \* pm25_to_aqi_us: <<aqi, label>> returned, <<>> before the call
    pyIsoZ,     \* the interpreter's datetime.fromisoformat accepts a trailing "Z"
                \* (Python >= 3.11) or raises ValueError on it (older)
    normIn,     \* the two timestamp strings handed to the normalization paths
    normOut,    \* what each path made of each of them, <<>> before
    now,        \* the wall clock, an instant
    raw,        \* collection air_quality_raw: key string -> document
    raw72,      \* collection air_quality_raw_72h: key string -> document
    ingOut,     \* the last ingest run: script, payload, outcome, the collection before it
    ingRuns,    \* ingest runs so far
    lastPm,     \* per collection and physical hour, the pm2_5 most recently written for it
    env,        \* the process environment: MONGO_URI is set, the model file exists,
                \* TARGET_TIME_UTC (<<>> when unset)
    feat1h,     \* collection air_quality_features_karachi_pm25_1h
    feat72,     \* collection air_quality_features_karachi_pm25_72h
    buildOut,   \* the last feature build: script, outcome, the rows it worked on
    model,      \* which fitted model models/rf_pm25_next72h.pkl holds
    forecast,   \* collection aqi_forecast_karachi_next72h: a set of documents
    predOut,    \* the last on-demand prediction: the query and its outcome
    matOut,     \* the last materializer run: outcome, base_time, prediction vector,
                \* the forecast collection before it, the run before it
    cleanOut,   \* the last cleanup run: outcome, clock, the raw collection before it
    race,       \* two concurrent runs of one stage: their upserts, how far each got,
                \* and per key the upsert that came last
    readOut     \* what the forecast reader last returned

aqiVars == <<aqiIn, aqiOut>>

normVars == <<normIn, normOut>>

ingestVars == <<raw, raw72, ingOut, ingRuns, lastPm>>

buildVars == <<feat1h, feat72, buildOut>>

serveVars == <<model, forecast, predOut, matOut>>

auxVars == <<cleanOut, race, readOut>>

vars == <<aqiIn, aqiOut, pyIsoZ, normIn, normOut, now, raw, raw72, ingOut, ingRuns, lastPm,
          env, feat1h, feat72, buildOut, model, forecast, predOut, matOut,
          cleanOut, race, readOut>>

----------------------------------------------------------------------------
(* Nullable values *)

None == <<>>

Some(x) == <<x>>

IsNone(o) == o = <<>>

Val(o) == o[1]

Min(S) == CHOOSE x \in S : \A y \in S : x <= y

Max(S) == CHOOSE x \in S : \A y \in S : y <= x

\* f itself, with every value computed once
Stored(f) == f @@ <<>>

\* the empty collection
EmptyCol == [k \in {} |-> <<>>]

----------------------------------------------------------------------------
(* The parts of the state a specification leaves alone *)

AqiIdle == aqiIn = 0 /\ aqiOut = <<>>

NormIdle == normIn = <<>> /\ normOut = <<>>

IngestIdle ==
    /\ raw = EmptyCol
    /\ raw72 = EmptyCol
    /\ ingOut = <<>>
    /\ ingRuns = 0
    /\ lastPm = <<>>

BuildIdle == feat1h = EmptyCol /\ feat72 = EmptyCol /\ buildOut = <<>>

ServeIdle ==
    /\ model = 1
    /\ forecast = {}
    /\ predOut = <<>>
    /\ matOut = <<>>
    /\ cleanOut = <<>>
    /\ race = <<>>
    /\ readOut = <<>>

\* the environment with everything in place
Configured == [MONGO_URI |-> TRUE, model_file |-> TRUE, TARGET_TIME_UTC |-> <<>>]

----------------------------------------------------------------------------
(* Timestamp strings and their parsers                                     *)
(*                                                                         *)
(* A timestamp string is [lh, mi, enc]: the wall-clock hour it spells      *)
(* (hours since the start of the calendar), the minute it spells, and its  *)
(* encoding:                                                               *)
(*   "nosec"  YYYY-MM-DDTHH:MM            (16 characters, naive)           *)
(*   "sec"    YYYY-MM-DDTHH:MM:00         (19 characters, naive)           *)
(*   "Z"      YYYY-MM-DDTHH:MM:00Z                                         *)
(*   "utc0"   YYYY-MM-DDTHH:MM:00+00:00                                    *)
(*   "off5"   YYYY-MM-DDTHH:MM:00+05:00                                    *)
(*   "bad"    a string no parser accepts, such as "n/a" (lh = mi = 0)      *)
(* A datetime is [wall, tz]: its wall-clock reading in minutes and its     *)
(* tzinfo, <<>> (naive) or <<UTC offset in minutes>>; an aware datetime    *)
(* denotes the instant wall - offset.                                      *)

Encodings == {"nosec", "sec", "Z", "utc0", "off5"}

TsString(lh, mi, enc) == [lh |-> lh, mi |-> mi, enc |-> enc]

BadString == TsString(0, 0, "bad")

\* the UTC offset, in minutes, that an encoding spells
OffsetOf(enc) == IF enc = "off5" THEN 300 ELSE 0

\* the instant a parsable string denotes (naive strings are UTC)
InstantOf(s) == s.lh * 60 + s.mi - OffsetOf(s.enc)

\* an instant truncated to the whole hour
HourFloor(t) == (t \div 60) * 60

\* the UTC hour (as an instant) in which the instant a string denotes lies
PhysicalHour(s) == HourFloor(InstantOf(s))

\* str.replace("Z", "+00:00")
ReplaceZ(s) == IF s.enc = "Z" THEN [s EXCEPT !.enc = "utc0"] ELSE s

\* datetime.fromisoformat(s): <<>> stands for the ValueError it raises
fromisoformat(s) ==
    CASE s.enc = "bad" -> None
      [] s.enc = "Z" -> IF pyIsoZ THEN Some([wall |-> s.lh * 60 + s.mi, tz |-> <<0>>]) ELSE None
      [] s.enc \in {"nosec", "sec"} -> Some([wall |-> s.lh * 60 + s.mi, tz |-> <<>>])
      [] OTHER -> Some([wall |-> s.lh * 60 + s.mi, tz |-> <<OffsetOf(s.enc)>>])

\* dt.tzinfo is None
IsNaive(dt) == dt.tz = <<>>

\* dt.replace(tzinfo=timezone.utc): the wall-clock reading is kept
ReplaceTzUtc(dt) == [dt EXCEPT !.tz = <<0>>]

\* the instant of an aware datetime
DtInstant(dt) == dt.wall - dt.tz[1]

\* 01_ingest_raw_karachi.py parse_utc_hour: <<>> for the ValueError
parse_utc_hour(ts_str) ==
    LET dt == fromisoformat(ReplaceZ(ts_str))
    IN  IF dt = None THEN None
        ELSE IF IsNaive(dt[1]) THEN Some(ReplaceTzUtc(dt[1]))
        ELSE dt

\* dt.isoformat().replace("+00:00", "Z") of an aware datetime
IsoformatZ(dt) ==
    TsString(dt.wall \div 60, dt.wall % 60, IF dt.tz = <<0>> THEN "Z" ELSE "off5")

\* 01_ingest_raw_karachi_72h.py: datetime.fromisoformat(t).replace(tzinfo=utc)
parse_72h(t) ==
    LET dt == fromisoformat(t)
    IN  IF dt = None THEN None ELSE Some(ReplaceTzUtc(dt[1]))

\* strftime("%Y-%m-%dT%H:%M:%SZ") of a datetime: its wall-clock reading and a Z
StrftimeZ(dt) == TsString(dt.wall \div 60, dt.wall % 60, "Z")

\* the same format of a UTC instant (pandas .dt.strftime, iso_z)
FormatZ(t) == TsString(t \div 60, t % 60, "Z")

\* pd.to_datetime(s, utc=True) of one string: the instant, <<>> where the
\* string does not parse (NaT under errors="coerce", ValueError otherwise)
to_datetime_utc(s) == IF s.enc = "bad" THEN None ELSE Some(InstantOf(s))

\* 02_build_features_pm25_next72h.py _parse_mixed_utc_timestamps, one element:
\* a trailing Z becomes +00:00, a 16-character string gets ":00+00:00", a
\* 19-character string gets "+00:00", then pd.to_datetime(utc=True, coerce)
parse_mixed_utc_timestamp(s) ==
    LET z   == ReplaceZ(s)
        s16 == IF z.enc = "nosec" THEN [z EXCEPT !.enc = "utc0"] ELSE z
        s19 == IF s16.enc = "sec" THEN [s16 EXCEPT !.enc = "utc0"] ELSE s16
    IN  to_datetime_utc(s19)

\* a parser that reads the wall-clock text and ignores a spelt offset
normalize_ts_wall(ts) == IF ts.enc = "bad" THEN None ELSE Some(ts.lh * 60 + ts.mi)

\* 00_cleanup_future_raw.py normalize_ts
normalize_ts(ts) == to_datetime_utc(ReplaceZ(ts))

\* string comparison a <= b: the first 16 characters spell the wall-clock
\* time in fixed width, the rest is "", ":00", ":00+00:00", ":00+05:00" or
\* ":00Z" ('+' sorts before 'Z'); a string such as "n/a" sorts after digits
EncRank(enc) ==
    CASE enc = "nosec" -> 0 [] enc = "sec" -> 1 [] enc = "utc0" -> 2
      [] enc = "off5" -> 3 [] enc = "Z" -> 4 [] OTHER -> 5

\* a string's place in the string order, as a number
StrCode(a) ==
    IF a.enc = "bad" THEN 1073741824 ELSE (a.lh * 60 + a.mi) * 8 + EncRank(a.enc)

StrLess(a, b) == StrCode(a) < StrCode(b)

StrLeq(a, b) == a = b \/ StrLess(a, b)

----------------------------------------------------------------------------
(* PM2.5 -> US AQI  (05_predict_pm25_for_time_next72h.py, pm25_to_aqi_us;  *)
(* 06_generate_and_store_next72h_forecast.py holds the same function)      *)

\* the breakpoints table, concentrations in c5 units
breakpoints ==
    << [c_low |->        0, c_high |->  1200000, i_low |->   0, i_high |->  50, label |-> "Good"],
       [c_low |->  1210000, c_high |->  3540000, i_low |->  51, i_high |-> 100, label |-> "Moderate"],
       [c_low |->  3550000, c_high |->  5540000, i_low |-> 101, i_high |-> 150, label |-> "Unhealthy for Sensitive Groups"],
       [c_low |->  5550000, c_high |-> 15040000, i_low |-> 151, i_high |-> 200, label |-> "Unhealthy"],
       [c_low |-> 15050000, c_high |-> 25040000, i_low |-> 201, i_high |-> 300, label |-> "Very Unhealthy"],
       [c_low |-> 25050000, c_high |-> 35040000, i_low |-> 301, i_high |-> 400, label |-> "Hazardous"],
       [c_low |-> 35050000, c_high |-> 50040000, i_low |-> 401, i_high |-> 500, label |-> "Hazardous"] >>

\* 500.4, the upper clamp
ClampHigh == 50040000

\* a clamp that lets negative arguments through
ClampAboveOnly(pm25) == IF pm25 > ClampHigh THEN ClampHigh ELSE pm25

\* "if pm25 < 0: pm25 = 0.0; if pm25 > 500.4: pm25 = 500.4"
Clamp(pm25) == IF pm25 < 0 THEN 0 ELSE IF pm25 > ClampHigh THEN ClampHigh ELSE pm25

\* The expression ((i_high - i_low) / (c_high - c_low)) * (pm25 - c_low) + i_low
\* is evaluated in IEEE doubles and handed to round().  Where its exact value
\* lies strictly between two integers' midpoint and one of them, round() gives
\* that integer.  Where the exact value is a midpoint k + 1/2, the double is a
\* few ulps to one side of it and round() follows the double: these are the
\* arguments (in 0.01 ug/m3) on the 0.01 grid whose double lands above the
\* midpoint; every other midpoint argument of the grid lands below.
FloatTieUp ==
    { 36, 84, 108, 132, 156, 180, 228, 276, 324, 348, 372, 420, 444, 468, 516,
      540, 564, 612, 636, 660, 708, 732, 756, 804, 852, 900, 924, 948, 972, 996,
      1044, 1092, 1116, 1140, 1164, 1188, 2375, 4545, 10295, 16715, 18935, 21155,
      23375, 26715, 28935, 31155, 33375, 34485 }

\* int(round(aqi)) for aqi = i_low + num/den, at (clamped) argument pm25
RoundAqi(b, pm25) ==
    LET num == (b.i_high - b.i_low) * (pm25 - b.c_low)
        den == b.c_high - b.c_low
        q   == num \div den
        r   == num % den
    IN  IF 2 * r < den THEN b.i_low + q
        ELSE IF 2 * r > den THEN b.i_low + q + 1
        ELSE IF pm25 % 1000 = 0 /\ (pm25 \div 1000) \in FloatTieUp THEN b.i_low + q + 1
        ELSE b.i_low + q

\* the bands, in table order, whose inclusive range holds the clamped value
Matching(c) == { i \in 1..Len(breakpoints) : breakpoints[i].c_low <= c /\ c <= breakpoints[i].c_high }

\* pm25_to_aqi_us(pm25): the first matching band wins; (None, "Unknown") when
\* the loop ends without a match
pm25_to_aqi_us(pm25) ==
    LET c == Clamp(pm25)
        m == Matching(c)
    IN  IF m = {} THEN << None, "Unknown" >>
        ELSE LET b == breakpoints[Min(m)]
             IN  << Some(RoundAqi(b, c)), b.label >>

----------------------------------------------------------------------------
(* Collections and update_one(filter, {"$set": doc}, upsert=True)          *)

\* an update that keeps the value of every field the stored document has
SetMissingFields(old, doc) ==
    [f \in (DOMAIN old) \cup (DOMAIN doc) |-> IF f \in DOMAIN old THEN old[f] ELSE doc[f]]

\* "$set": the document's fields replace or extend the stored document's
SetFields(old, doc) ==
    [f \in (DOMAIN old) \cup (DOMAIN doc) |-> IF f \in DOMAIN doc THEN doc[f] ELSE old[f]]

\* an upsert by key: the matching document is updated, or doc is inserted
UpdateOne(col, key, doc) ==
    [k \in (DOMAIN col) \cup {key} |->
        IF k = key THEN (IF key \in DOMAIN col THEN SetFields(col[key], doc) ELSE doc)
        ELSE col[k]]

----------------------------------------------------------------------------
(* Ingestion (01_ingest_raw_karachi.py, 01_ingest_raw_karachi_72h.py)      *)
(* A payload is the API's hourly arrays: [time, pm2_5], of one length.     *)
(* Of a raw document the model keeps timestamp, pollutants.pm2_5 and       *)
(* ingested_at; the other pollutants travel as pm2_5 does and source,      *)
(* city, country and location are the same in every document.              *)

\* 01_ingest_raw_karachi.py floor_to_hour, on an instant
floor_to_hour(t) == HourFloor(t)

\* the loop of 01_ingest_raw_karachi.py main from index i on: the collection
\* it leaves, "ok" or the exception that ended it, and the indices upserted
RECURSIVE ingest_loop(_, _, _, _, _)
ingest_loop(col, payload, i, clock, log) ==
    IF i > Len(payload.time) THEN [col |-> col, status |-> "ok", log |-> log]
    ELSE LET t_dt == parse_utc_hour(payload.time[i])
         IN  IF t_dt = None THEN [col |-> col, status |-> "ValueError", log |-> log]
             ELSE IF DtInstant(t_dt[1]) > floor_to_hour(clock)
                  THEN ingest_loop(col, payload, i + 1, clock, log)
             ELSE LET doc == [timestamp   |-> IsoformatZ(t_dt[1]),
                              pm2_5       |-> payload.pm2_5[i],
                              ingested_at |-> clock]
                  IN  ingest_loop(UpdateOne(col, doc.timestamp, doc), payload, i + 1,
                                  clock, Append(log, i))

\* the loop of 01_ingest_raw_karachi_72h.py main
RECURSIVE ingest72_loop(_, _, _, _, _)
ingest72_loop(col, payload, i, clock, log) ==
    IF i > Len(payload.time) THEN [col |-> col, status |-> "ok", log |-> log]
    ELSE LET dt == parse_72h(payload.time[i])
         IN  IF dt = None THEN [col |-> col, status |-> "ValueError", log |-> log]
             ELSE IF DtInstant(dt[1]) > HourFloor(clock)
                  THEN ingest72_loop(col, payload, i + 1, clock, log)
             ELSE LET doc == [timestamp   |-> StrftimeZ(dt[1]),
                              pm2_5       |-> payload.pm2_5[i],
                              ingested_at |-> clock]
                  IN  ingest72_loop(UpdateOne(col, doc.timestamp, doc), payload, i + 1,
                                    clock, Append(log, i))

\* the pm2_5 most recently written per physical hour, after the upserts in log
RECURSIVE LastWritten(_, _, _, _)
LastWritten(last, payload, log, j) ==
    IF j > Len(log) THEN last
    ELSE LET hr == PhysicalHour(payload.time[log[j]])
         IN  LastWritten([h \in (DOMAIN last) \cup {hr} |->
                             IF h = hr THEN payload.pm2_5[log[j]] ELSE last[h]],
                         payload, log, j + 1)

\* the strings a payload may hold: hour 1 in every UTC spelling, the same
\* instant spelt with +05:00, a half-hour reading, hour 2, an hour that is
\* in the future at first, and an unparsable string
IngestStrings ==
    { TsString(1, 0, "nosec"), TsString(1, 0, "sec"), TsString(1, 0, "Z"), TsString(1, 0, "utc0"),
      TsString(6, 0, "off5"), TsString(1, 30, "nosec"), TsString(2, 0, "nosec"),
      TsString(4, 0, "nosec"), BadString }

\* a payload holds at most MaxPayload hours
MaxPayload == 2

\* at most MaxIngestRuns ingest runs
MaxIngestRuns == 2

\* the clock starts inside hour 3 and stops before MaxClock
ClockStart == 190

MaxClock == 300

RECURSIVE SeqsUpTo(_, _)
SeqsUpTo(S, n) ==
    IF n = 0 THEN { <<>> }
    ELSE LET shorter == SeqsUpTo(S, n - 1)
         IN  shorter \cup { Append(q, x) : q \in { r \in shorter : Len(r) = n - 1 }, x \in S }

Payloads(run) ==
    { [time |-> ts, pm2_5 |-> [i \in 1..Len(ts) |-> Some(10 * run + i)]] :
        ts \in SeqsUpTo(IngestStrings, MaxPayload) \ { <<>> } }

\* one run of 01_ingest_raw_karachi.py
Ingest1h ==
    /\ ingRuns < MaxIngestRuns
    /\ \E payload \in Payloads(ingRuns + 1) :
         LET r == IF env.MONGO_URI THEN ingest_loop(raw, payload, 1, now, <<>>)
                  ELSE [col |-> raw, status |-> "RuntimeError", log |-> <<>>]
         IN  /\ raw' = r.col
             /\ ingOut' = [script |-> "1h", payload |-> payload, status |-> r.status, before |-> raw]
             /\ lastPm' = [lastPm EXCEPT !.raw = LastWritten(lastPm.raw, payload, r.log, 1)]
    /\ ingRuns' = ingRuns + 1
    /\ UNCHANGED <<auxVars, serveVars, aqiVars, normVars, buildVars, pyIsoZ, now, env, raw72>>

\* one run of 01_ingest_raw_karachi_72h.py
Ingest72h ==
    /\ ingRuns < MaxIngestRuns
    /\ \E payload \in Payloads(ingRuns + 1) :
         LET r == IF env.MONGO_URI THEN ingest72_loop(raw72, payload, 1, now, <<>>)
                  ELSE [col |-> raw72, status |-> "RuntimeError", log |-> <<>>]
         IN  /\ raw72' = r.col
             /\ ingOut' = [script |-> "72h", payload |-> payload, status |-> r.status, before |-> raw72]
             /\ lastPm' = [lastPm EXCEPT !.raw72 = LastWritten(lastPm.raw72, payload, r.log, 1)]
    /\ ingRuns' = ingRuns + 1
    /\ UNCHANGED <<auxVars, serveVars, aqiVars, normVars, buildVars, pyIsoZ, now, env, raw>>

\* an hour passes
TickIngest ==
    /\ now + 60 < MaxClock
    /\ now' = now + 60
    /\ UNCHANGED <<auxVars, serveVars, aqiVars, normVars, buildVars, pyIsoZ, env, ingestVars>>

InitIngest ==
    /\ pyIsoZ \in BOOLEAN
    /\ now = ClockStart
    /\ raw = EmptyCol
    /\ raw72 = EmptyCol
    /\ ingOut = <<>>
    /\ ingRuns = 0
    /\ lastPm = [raw |-> EmptyCol, raw72 |-> EmptyCol]
    /\ env = Configured
    /\ AqiIdle
    /\ NormIdle
    /\ BuildIdle
    /\ ServeIdle

NextIngest == Ingest1h \/ Ingest72h \/ TickIngest

SpecIngest == InitIngest /\ [][NextIngest]_vars

\* a payload without its unparsable entries
RECURSIVE WithoutBad(_, _)
WithoutBad(payload, i) ==
    IF i > Len(payload.time) THEN [time |-> <<>>, pm2_5 |-> <<>>]
    ELSE LET rest == WithoutBad(payload, i + 1)
         IN  IF payload.time[i].enc = "bad" THEN rest
             ELSE [time |-> <<payload.time[i]>> \o rest.time,
                   pm2_5 |-> <<payload.pm2_5[i]>> \o rest.pm2_5]

\* C7 (ingest): a batch holding an unparsable timestamp completes, and the
\* collection is then what the same run makes of the batch without it.
C7_BadTimestampDropped ==
    (/\ ingOut # <<>>
     /\ \E i \in 1..Len(ingOut.payload.time) : ingOut.payload.time[i].enc = "bad"
     /\ \E i \in 1..Len(ingOut.payload.time) : ingOut.payload.time[i].enc # "bad") =>
        /\ ingOut.status = "ok"
        /\ ingOut.script = "1h" =>
              raw = ingest_loop(ingOut.before, WithoutBad(ingOut.payload, 1), 1, now, <<>>).col
        /\ ingOut.script = "72h" =>
              raw72 = ingest72_loop(ingOut.before, WithoutBad(ingOut.payload, 1), 1, now, <<>>).col

\* C8: a raw collection holds at most one Reading per physical UTC hour, and
\* its pm2_5 is the one most recently written for that hour.
C8_OnePerHourLastWins ==
    lastPm # <<>> =>
      \A name \in {"raw", "raw72"} :
        LET col == IF name = "raw" THEN raw ELSE raw72
        IN  /\ \A k1, k2 \in DOMAIN col : PhysicalHour(k1) = PhysicalHour(k2) => k1 = k2
            /\ \A k \in DOMAIN col :
                  /\ PhysicalHour(k) \in DOMAIN lastPm[name]
                  /\ col[k].pm2_5 = lastPm[name][PhysicalHour(k)]

----------------------------------------------------------------------------
(* Feature building (02_build_features_pm25_next1h.py,                     *)
(* 02_build_features_pm25_next72h.py)                                      *)
(* A row of the DataFrame is [key, ts, pm]: the raw document's timestamp   *)
(* string, what it parsed to, and pollutants.pm2_5.  A rolling mean is     *)
(* [sum, n], the exact quotient sum/n; a rolling standard deviation is     *)
(* [ssq, n], the exact (n*sum(x^2) - sum(x)^2) / (n*(n-1)) under the root. *)

HORIZON_HOURS == 72

\* the members of S in increasing order of code[k], which tells them apart
SortedBy(S, code) ==
    LET pos == [k \in S |-> Cardinality({ j \in S : code[j] < code[k] })] @@ EmptyCol
    IN  Stored([i \in 1..Cardinality(S) |-> CHOOSE k \in S : pos[k] = i - 1])

\* raw_col.find({"city": CITY}, {"_id": 0}).sort("timestamp", 1)
find_sorted(col) ==
    LET keys == SortedBy(DOMAIN col, Stored([k \in DOMAIN col |-> StrCode(k)]))
    IN  Stored([i \in 1..Len(keys) |-> col[keys[i]]])

\* Series.shift(k) at position i: the value k positions earlier (later for
\* k < 0), NaN beyond either end
shift(rows, i, k) ==
    IF i - k >= 1 /\ i - k <= Len(rows) THEN rows[i - k].pm ELSE None

RECURSIVE WindowSum(_, _, _)
WindowSum(rows, lo, hi) ==
    IF lo > hi THEN 0 ELSE Val(rows[lo].pm) + WindowSum(rows, lo + 1, hi)

RECURSIVE WindowSumSq(_, _, _)
WindowSumSq(rows, lo, hi) ==
    IF lo > hi THEN 0 ELSE Val(rows[lo].pm) * Val(rows[lo].pm) + WindowSumSq(rows, lo + 1, hi)

\* the window of w positions ending at i holds w observations, none NaN
FullWindow(rows, i, w) ==
    i >= w /\ \A j \in (i - w + 1)..i : rows[j].pm # None

\* Series.rolling(w).mean() at position i; min_periods is w, as written in
\* the 72h script and by default in the 1h script
rolling_mean(rows, i, w) ==
    IF FullWindow(rows, i, w) THEN Some([sum |-> WindowSum(rows, i - w + 1, i), n |-> w]) ELSE None

\* Series.rolling(w).std() at position i
rolling_std(rows, i, w) ==
    IF FullWindow(rows, i, w)
    THEN LET sm == WindowSum(rows, i - w + 1, i)
         IN  Some([ssq |-> w * WindowSumSq(rows, i - w + 1, i) - sm * sm, n |-> w])
    ELSE None

\* df[a] - df[a].shift(1)
diff_1h(rows, i) ==
    LET prev == shift(rows, i, 1)
    IN  IF rows[i].pm = None \/ prev = None THEN None ELSE Some(Val(rows[i].pm) - Val(prev))

\* .dt.hour, .dt.dayofweek (0 = Monday; the calendar starts on Thursday
\* 2026-01-01), .dt.month (within the year 2026)
hour_of(ts) == (ts \div 60) % 24

day_of_week(ts) == ((ts \div 1440) + 3) % 7

month_of(ts) ==
    LET d == (ts \div 1440) % 365
        ends == <<31, 59, 90, 120, 151, 181, 212, 243, 273, 304, 334, 365>>
    IN  Min({ m \in 1..12 : d < ends[m] })

\* the feature columns both scripts compute for position i
FeatureCols(rows, i, clock) ==
    [ timestamp           |-> FormatZ(rows[i].ts),
      pm2_5               |-> rows[i].pm,
      hour                |-> hour_of(rows[i].ts),
      day_of_week         |-> day_of_week(rows[i].ts),
      month               |-> month_of(rows[i].ts),
      is_weekend          |-> IF day_of_week(rows[i].ts) \in {5, 6} THEN 1 ELSE 0,
      pm2_5_lag_1h        |-> shift(rows, i, 1),
      pm2_5_lag_3h        |-> shift(rows, i, 3),
      pm2_5_lag_24h       |-> shift(rows, i, 24),
      pm2_5_roll_mean_3h  |-> rolling_mean(rows, i, 3),
      pm2_5_roll_mean_24h |-> rolling_mean(rows, i, 24),
      pm2_5_roll_std_24h  |-> rolling_std(rows, i, 24),
      pm2_5_diff_1h       |-> diff_1h(rows, i),
      features_built_at   |-> clock ]

\* a record extended by another's fields
Extend(r, more) ==
    [f \in (DOMAIN r) \cup (DOMAIN more) |-> IF f \in DOMAIN more THEN more[f] ELSE r[f]]

\* the document the 1h script writes for position i
FeatureDoc1h(rows, i, clock) ==
    Extend(FeatureCols(rows, i, clock),
           [target_pm2_5_next_1h |-> shift(rows, i, -1), target_horizon_hours |-> 1])

\* the document the 72h script writes for position i; target[h] is column
\* target_pm2_5_t_plus_{h}h
FeatureDoc72h(rows, i, clock) ==
    Extend(FeatureCols(rows, i, clock),
           [target |-> Stored([h \in 1..HORIZON_HOURS |-> shift(rows, i, 0 - h)]),
            max_target_horizon_hours |-> HORIZON_HOURS])

\* the upsert loop over the records, in DataFrame order: under a key, each
\* field ends as the last record with that key set it, and fields no record
\* sets stay as they were
upsert_all(col, docs) ==
    LET keys == { docs[i].timestamp : i \in 1..Len(docs) }
    IN  [k \in (DOMAIN col) \cup keys |->
            IF k \in keys
            THEN LET at     == { i \in 1..Len(docs) : docs[i].timestamp = k }
                     fields == (IF k \in DOMAIN col THEN DOMAIN col[k] ELSE {})
                                  \cup UNION { DOMAIN docs[i] : i \in at }
                 IN  [f \in fields |->
                        LET setters == { i \in at : f \in DOMAIN docs[i] }
                        IN  IF setters # {} THEN docs[Max(setters)][f] ELSE col[k][f]]
            ELSE col[k]]

\* 02_build_features_pm25_next1h.py main: the status it ends with, the
\* DataFrame rows it built features from, and the feature collection after.
\* The rows keep the order the query returned (string order of the keys).
build_1h(rawcol, featcol, environ, clock) ==
    LET raw_list == find_sorted(rawcol)
        parsed   == Stored([i \in 1..Len(raw_list) |-> to_datetime_utc(raw_list[i].timestamp)])
        rows     == Stored([i \in 1..Len(raw_list) |->
                        [key |-> raw_list[i].timestamp, ts |-> Val(parsed[i]), pm |-> raw_list[i].pm2_5]])
        docs     == Stored([i \in 1..Len(rows) |-> FeatureDoc1h(rows, i, clock)])
    IN  IF ~environ.MONGO_URI THEN [status |-> "RuntimeError: MONGO_URI", rows |-> <<>>, col |-> featcol]
        ELSE IF Len(raw_list) < 30
             THEN [status |-> "RuntimeError: not enough raw data", rows |-> <<>>, col |-> featcol]
        ELSE IF \E i \in 1..Len(raw_list) : parsed[i] = None
             THEN [status |-> "ValueError", rows |-> <<>>, col |-> featcol]
        ELSE [status |-> "ok", rows |-> rows, col |-> upsert_all(featcol, docs)]

\* the rows left after dropna(subset=["timestamp"])
dropna(raw_list, parsed) ==
    { [key |-> raw_list[i].timestamp, ts |-> Val(parsed[i]), pm |-> raw_list[i].pm2_5] :
        i \in { j \in 1..Len(raw_list) : parsed[j] # None } }

\* sort_values("timestamp") is not a stable sort: rows of one instant come
\* out in one order (tie = 0) or the other (tie = 1)
InstantCode(row, tie) ==
    row.ts * 8 + (IF tie = 0 THEN EncRank(row.key.enc) ELSE 7 - EncRank(row.key.enc))

sort_values(rowset, tie) ==
    SortedBy(rowset, Stored([row \in rowset |-> InstantCode(row, tie)]))

\* 24 + HORIZON_HOURS + 5
min_needed == 24 + HORIZON_HOURS + 5

\* a builder that upserts what it has before it looks at how much history
\* there is
build_72h_write_first(rawcol, featcol, environ, clock, tie) ==
    LET raw_list == find_sorted(rawcol)
        parsed   == Stored([i \in 1..Len(raw_list) |-> parse_mixed_utc_timestamp(raw_list[i].timestamp)])
        rows     == sort_values(dropna(raw_list, parsed), tie)
        docs     == Stored([i \in 1..Len(rows) |-> FeatureDoc72h(rows, i, clock)])
    IN  IF ~environ.MONGO_URI THEN [status |-> "RuntimeError: MONGO_URI", rows |-> <<>>, col |-> featcol]
        ELSE IF Len(raw_list) < min_needed
             THEN [status |-> "RuntimeError: not enough raw data", rows |-> <<>>,
                   col |-> upsert_all(featcol, docs)]
        ELSE IF Len(rows) = 0
             THEN [status |-> "RuntimeError: no valid rows", rows |-> <<>>, col |-> featcol]
        ELSE [status |-> "ok", rows |-> rows, col |-> upsert_all(featcol, docs)]

\* 02_build_features_pm25_next72h.py main
build_72h(rawcol, featcol, environ, clock, tie) ==
    LET raw_list == find_sorted(rawcol)
        parsed   == Stored([i \in 1..Len(raw_list) |-> parse_mixed_utc_timestamp(raw_list[i].timestamp)])
        rows     == sort_values(dropna(raw_list, parsed), tie)
        docs     == Stored([i \in 1..Len(rows) |-> FeatureDoc72h(rows, i, clock)])
    IN  IF ~environ.MONGO_URI THEN [status |-> "RuntimeError: MONGO_URI", rows |-> <<>>, col |-> featcol]
        ELSE IF Len(raw_list) < min_needed
             THEN [status |-> "RuntimeError: not enough raw data", rows |-> <<>>, col |-> featcol]
        ELSE IF Len(rows) = 0
             THEN [status |-> "RuntimeError: no valid rows", rows |-> <<>>, col |-> featcol]
        ELSE [status |-> "ok", rows |-> rows, col |-> upsert_all(featcol, docs)]

----------------------------------------------------------------------------
(* Feature builds over a raw collection.  air_quality_raw is written by    *)
(* the ingest script, was written by its earlier versions (keys without    *)
(* seconds, forecast hours: what 00_cleanup_future_raw.py is there to      *)
(* remove) and is open to other writers, so a build may meet hourly        *)
(* readings with any of these: a missing hour, a second document for an    *)
(* instant under an old key, an unparsable key, a document for the next    *)
(* hour, a null pm2_5, a key spelt with +05:00.                            *)

RawDoc(key, pm, at) == [timestamp |-> key, pm2_5 |-> pm, ingested_at |-> at]

\* readings for hours 0 .. n-1, hour h holding pm2_5 = 10 + h
Hourly(n) == { RawDoc(FormatZ(60 * h), Some(10 + h), 60 * h + 5) : h \in 0..(n - 1) }

Oddities == {"gap", "dup", "bad", "future", "nullpm", "off5"}

\* the documents of Hourly(n) with the oddities in odd applied
RawDocs(n, odd) ==
    LET base    == Hourly(n)
        gapped  == IF "gap" \in odd THEN { d \in base : d.timestamp # FormatZ(60 * (n - 3)) } ELSE base
        nulled  == IF "nullpm" \in odd
                   THEN { IF d.timestamp = FormatZ(60 * (n - 7)) THEN [d EXCEPT !.pm2_5 = None] ELSE d : d \in gapped }
                   ELSE gapped
        extra   == (IF "dup" \in odd THEN { RawDoc(TsString(n - 5, 0, "nosec"), Some(500), 0) } ELSE {})
                   \cup (IF "bad" \in odd THEN { RawDoc(BadString, Some(501), 0) } ELSE {})
                   \cup (IF "future" \in odd THEN { RawDoc(FormatZ(60 * n), Some(502), 0) } ELSE {})
                   \cup (IF "off5" \in odd THEN { RawDoc(TsString(n - 4, 0, "off5"), Some(503), 0) } ELSE {})
    IN  nulled \cup extra

\* the collection holding a set of documents with distinct keys
AsCollection(docs) ==
    [k \in { d.timestamp : d \in docs } |-> CHOOSE d \in docs : d.timestamp = k]

\* the numbers of hourly readings a raw collection starts from
RawSizes == {29, 30, 100, 101}

\* at most MaxOdd oddities at a time
MaxOdd == 2

\* at most MaxBuilds feature builds
MaxBuilds == 2

InitBuild ==
    /\ \E n \in RawSizes, odd \in SUBSET Oddities :
         /\ Cardinality(odd) <= MaxOdd
         /\ raw = AsCollection(RawDocs(n, odd))
         /\ now = 60 * (n - 1) + 10
    /\ env \in {Configured, [Configured EXCEPT !.MONGO_URI = FALSE]}
    /\ pyIsoZ = TRUE
    /\ raw72 = EmptyCol
    /\ ingOut = <<>>
    /\ ingRuns = 0
    /\ lastPm = <<>>
    /\ feat1h = EmptyCol
    /\ feat72 = EmptyCol
    /\ buildOut = <<>>
    /\ AqiIdle
    /\ NormIdle
    /\ ServeIdle

BuildsDone == IF buildOut = <<>> THEN 0 ELSE buildOut.run

\* one run of 02_build_features_pm25_next1h.py
Build1h ==
    /\ BuildsDone < MaxBuilds
    /\ \E r \in { build_1h(raw, feat1h, env, now) } :
           /\ feat1h' = r.col
           /\ buildOut' = [script |-> "1h", status |-> r.status, rows |-> r.rows,
                           clock |-> now, run |-> BuildsDone + 1]
    /\ UNCHANGED <<auxVars, serveVars, aqiVars, normVars, ingestVars, pyIsoZ, now, env, feat72>>

\* one run of 02_build_features_pm25_next72h.py
Build72h ==
    /\ BuildsDone < MaxBuilds
    /\ \E tie \in {0, 1} :
         \E r \in { build_72h(raw, feat72, env, now, tie) } :
             /\ feat72' = r.col
             /\ buildOut' = [script |-> "72h", status |-> r.status, rows |-> r.rows,
                             clock |-> now, run |-> BuildsDone + 1]
    /\ UNCHANGED <<auxVars, serveVars, aqiVars, normVars, ingestVars, pyIsoZ, now, env, feat1h>>

NextBuild == Build1h \/ Build72h

SpecBuild == InitBuild /\ [][NextBuild]_vars

\* the feature collection the last build wrote to
BuiltCol == IF buildOut.script = "1h" THEN feat1h ELSE feat72

\* the pm2_5 values of the readings, among those the build worked on, whose
\* instant is exactly t
ReadingsAt(t) == { buildOut.rows[j].pm : j \in { i \in 1..Len(buildOut.rows) : buildOut.rows[i].ts = t } }

\* C9: a build leaves out every Reading later than the current UTC hour: it
\* builds features from none and writes no FeatureRow for such an instant.
C9_NoFutureReading ==
    (buildOut # <<>> /\ buildOut.status = "ok") =>
        /\ \A i \in 1..Len(buildOut.rows) : buildOut.rows[i].ts <= HourFloor(buildOut.clock)
        /\ \A k \in DOMAIN BuiltCol : InstantOf(k) <= HourFloor(buildOut.clock)

\* C10: in every FeatureRow at instant t, lag_k is the pm2_5 of the Reading
\* at exactly t - k hours (k = 1, 3, 24), null when there is none, and
\* diff_1h is pm2_5(t) - pm2_5(t - 1h), null when there is no Reading at
\* t - 1h.
C10_LagByInstant ==
    (buildOut # <<>> /\ buildOut.status = "ok") =>
        \A key \in DOMAIN BuiltCol :
            LET doc == BuiltCol[key]
                t   == InstantOf(key)
                LagOk(v, k) == IF ReadingsAt(t - 60 * k) = {} THEN v = None
                               ELSE v \in ReadingsAt(t - 60 * k)
            IN  /\ LagOk(doc.pm2_5_lag_1h, 1)
                /\ LagOk(doc.pm2_5_lag_3h, 3)
                /\ LagOk(doc.pm2_5_lag_24h, 24)
                /\ IF ReadingsAt(t - 60) = {} THEN doc.pm2_5_diff_1h = None
                   ELSE \E p \in ReadingsAt(t - 60) :
                          doc.pm2_5_diff_1h =
                            (IF p = None \/ doc.pm2_5 = None THEN None ELSE Some(Val(doc.pm2_5) - Val(p)))

\* some Reading the build worked on has instant t and a pm2_5
Observed(t) == \E p \in ReadingsAt(t) : p # None

\* the Readings at the w consecutive hours ending at t all exist with a pm2_5
FullHours(t, w) == \A j \in 0..(w - 1) : Observed(t - 60 * j)

\* every one of those hours has exactly one Reading
OneEach(t, w) == \A j \in 0..(w - 1) : Cardinality(ReadingsAt(t - 60 * j)) = 1

RECURSIVE HourSum(_, _)
\* the sum of the pm2_5 of the Readings at the w hours ending at t
HourSum(t, w) ==
    IF w = 0 THEN 0 ELSE Val(CHOOSE p \in ReadingsAt(t) : TRUE) + HourSum(t - 60, w - 1)

RECURSIVE HourSumSq(_, _)
HourSumSq(t, w) ==
    IF w = 0 THEN 0
    ELSE LET v == Val(CHOOSE p \in ReadingsAt(t) : TRUE) IN v * v + HourSumSq(t - 60, w - 1)

\* C11: rolling_mean_w(t), w in {3, 24}, and rolling_std_24(t) are non-null
\* if and only if the w Readings at the consecutive hours t - (w-1)h .. t all
\* exist with a non-null pm2_5, and are then the mean (std) of exactly those
\* w values.
C11_RollingFullWindow ==
    (buildOut # <<>> /\ buildOut.status = "ok") =>
        \A key \in DOMAIN BuiltCol :
            LET doc == BuiltCol[key]
                t   == InstantOf(key)
            IN  /\ (doc.pm2_5_roll_mean_3h # None) <=> FullHours(t, 3)
                /\ (doc.pm2_5_roll_mean_24h # None) <=> FullHours(t, 24)
                /\ (doc.pm2_5_roll_std_24h # None) <=> FullHours(t, 24)
                /\ (FullHours(t, 3) /\ OneEach(t, 3) /\ doc.pm2_5_roll_mean_3h # None) =>
                      doc.pm2_5_roll_mean_3h = Some([sum |-> HourSum(t, 3), n |-> 3])
                /\ (FullHours(t, 24) /\ OneEach(t, 24) /\ doc.pm2_5_roll_mean_24h # None) =>
                      /\ doc.pm2_5_roll_mean_24h = Some([sum |-> HourSum(t, 24), n |-> 24])
                      /\ doc.pm2_5_roll_std_24h =
                            Some([ssq |-> 24 * HourSumSq(t, 24) - HourSum(t, 24) * HourSum(t, 24),
                                  n |-> 24])

\* the targets of a feature document, by horizon
TargetsOf(doc) ==
    IF "target" \in DOMAIN doc THEN doc.target ELSE <<doc.target_pm2_5_next_1h>>

\* C12: target_h(t), h in 1..H, is the pm2_5 of the Reading at exactly
\* t + h hours, null when there is none; so the row i positions before the
\* end of the series has a null target for every h > i.
C12_TargetByInstant ==
    (buildOut # <<>> /\ buildOut.status = "ok") =>
        \A key \in DOMAIN BuiltCol :
            LET doc == BuiltCol[key]
                t   == InstantOf(key)
            IN  \A h \in DOMAIN TargetsOf(doc) :
                    IF ReadingsAt(t + 60 * h) = {} THEN TargetsOf(doc)[h] = None
                    ELSE TargetsOf(doc)[h] \in ReadingsAt(t + 60 * h)

\* C13: no lag, rolling or diff field of a row is computed from a Reading
\* later than the row's own instant: the positions a row's features reach
\* back to (1, 3 and 24 back, the windows of 3 and 24) hold no later instant.
C13_NoLeakage ==
    (buildOut # <<>> /\ buildOut.status = "ok") =>
        \A i \in 1..Len(buildOut.rows) :
            \A j \in 1..i :
                i - j <= 24 => buildOut.rows[j].ts <= buildOut.rows[i].ts

\* the observations a build needs: 24 + H + 5
Needed == IF buildOut.script = "1h" THEN 24 + 1 + 5 ELSE 24 + HORIZON_HOURS + 5

\* C14: the builder never goes on to write rows from a series that, after
\* the unparsable timestamps are dropped, has fewer than 24 + H + 5
\* observations.
C14_InsufficientHistory ==
    (buildOut # <<>> /\ buildOut.status = "ok") => Len(buildOut.rows) >= Needed

----------------------------------------------------------------------------
(* The converter on its own: every argument of the 0.01 grid from          *)
(* -MinBelow/100 to MaxCenti/100 ug/m3, some arguments between grid        *)
(* points, and 9999.                                                       *)

\* the grid reaches up to MaxCenti hundredths of a ug/m3 ...
MaxCenti == 50100

\* ... and down to MinBelow hundredths below zero
MinBelow == 1000

AqiInputs ==
    { k * 1000 : k \in (0 - MinBelow)..MaxCenti }
        \cup { 1200001, 1204999, 1209999, 3545001, 50039999, 50040001, 999900000 }

InitAqi ==
    /\ aqiIn \in AqiInputs
    /\ aqiOut = <<>>
    /\ pyIsoZ = TRUE
    /\ now = 0
    /\ env = Configured
    /\ NormIdle
    /\ IngestIdle
    /\ BuildIdle
    /\ ServeIdle

\* one call of pm25_to_aqi_us
Convert ==
    /\ aqiOut = <<>>
    /\ aqiOut' = pm25_to_aqi_us(aqiIn)
    /\ UNCHANGED <<auxVars, serveVars, aqiIn, pyIsoZ, now, env, normVars, ingestVars, buildVars>>

NextAqi == Convert

SpecAqi == InitAqi /\ [][NextAqi]_vars

\* C2: the argument is clamped to [0, 500.4] before the lookup and, on the
\* band that holds the clamped value, the result is the band's label and the
\* integer nearest to (i_high - i_low)/(c_high - c_low) * (c - c_low) + i_low;
\* AQI(0) = (0, Good), AQI(12.0) = (50, Good), AQI(12.1) = (51, Moderate),
\* AQI(500.4) = 500, every negative argument gives AQI(0) and every argument
\* above 500.4 gives AQI(500.4).
C2_ClampAndFormula ==
    aqiOut # <<>> =>
        /\ (aqiIn = 0 => aqiOut = << <<0>>, "Good" >>)
        /\ (aqiIn = 1200000 => aqiOut = << <<50>>, "Good" >>)
        /\ (aqiIn = 1210000 => aqiOut = << <<51>>, "Moderate" >>)
        /\ (aqiIn = 50040000 => aqiOut[1] = <<500>>)
        /\ (aqiIn < 0 => aqiOut = << <<0>>, "Good" >>)
        /\ (aqiIn > 50040000 => aqiOut = << <<500>>, "Hazardous" >>)
        /\ \A i \in 1..Len(breakpoints) :
              LET b == breakpoints[i]
                  c == IF aqiIn < 0 THEN 0 ELSE IF aqiIn > 50040000 THEN 50040000 ELSE aqiIn
                  den == b.c_high - b.c_low
                  over == (aqiOut[1][1] - b.i_low) * den - (b.i_high - b.i_low) * (c - b.c_low)
              IN  (b.c_low <= c /\ c <= b.c_high) =>
                    /\ aqiOut[2] = b.label
                    /\ aqiOut[1] # <<>>
                    /\ over <= den - over
                    /\ (0 - over) <= den + over

\* C2's case: a call whose argument lay outside [0, 500.4] has returned
C2_Witness == aqiOut # <<>> /\ (aqiIn < 0 \/ aqiIn > 50040000) /\ aqiOut[1] # <<>>

\* C3: after clamping, exactly one band holds the value, so the call never
\* returns (None, "Unknown").
C3_ExactlyOneBand ==
    aqiOut # <<>> =>
        /\ Cardinality(Matching(Clamp(aqiIn))) = 1
        /\ aqiOut[1] # <<>>
        /\ aqiOut[2] # "Unknown"

----------------------------------------------------------------------------
(* The normalization paths side by side: two timestamp strings go through  *)
(* each script's parsing and, for the ingest scripts, key formatting.      *)

\* wall-clock hours the strings may spell: 0 .. MaxWallHour
MaxWallHour == 7

\* the minutes the strings may spell
Minutes == {0, 30}

AcceptedStrings == { TsString(lh, mi, enc) : lh \in 0..MaxWallHour, mi \in Minutes, enc \in Encodings }

\* what the five paths make of one string: the instant each parser yields
\* (<<>> for an error or NaT) and the key each ingest script stores
Normalized(s) ==
    [ ingest_dt   |-> LET d == parse_utc_hour(s) IN IF d = None THEN None ELSE Some(DtInstant(d[1])),
      ingest_key  |-> LET d == parse_utc_hour(s) IN IF d = None THEN None ELSE Some(IsoformatZ(d[1])),
      ingest72_dt |-> LET d == parse_72h(s) IN IF d = None THEN None ELSE Some(DtInstant(d[1])),
      ingest72_key|-> LET d == parse_72h(s) IN IF d = None THEN None ELSE Some(StrftimeZ(d[1])),
      build1h     |-> to_datetime_utc(s),
      build72h    |-> parse_mixed_utc_timestamp(s),
      cleanup     |-> normalize_ts(s) ]

InitNorm ==
    /\ pyIsoZ \in BOOLEAN
    /\ normIn \in AcceptedStrings \X AcceptedStrings
    /\ normOut = <<>>
    /\ now = 0
    /\ env = Configured
    /\ AqiIdle
    /\ IngestIdle
    /\ BuildIdle
    /\ ServeIdle

NormalizeBoth ==
    /\ normOut = <<>>
    /\ normOut' = << Normalized(normIn[1]), Normalized(normIn[2]) >>
    /\ UNCHANGED <<auxVars, serveVars, aqiVars, pyIsoZ, now, env, normIn, ingestVars, buildVars>>

NextNorm == NormalizeBoth

SpecNorm == InitNorm /\ [][NextNorm]_vars

\* C6: two accepted strings that denote the same physical hour come out of
\* every normalization path as the same canonical value, the UTC instant
\* truncated to the whole hour (and, as a stored key, its one spelling).
C6_SameHourSameCanonical ==
    (normOut # <<>> /\ PhysicalHour(normIn[1]) = PhysicalHour(normIn[2])) =>
        LET canon == PhysicalHour(normIn[1])
        IN  \A i \in 1..2 :
              /\ normOut[i].ingest_dt    = <<canon>>
              /\ normOut[i].ingest_key   = <<FormatZ(canon)>>
              /\ normOut[i].ingest72_dt  = <<canon>>
              /\ normOut[i].ingest72_key = <<FormatZ(canon)>>
              /\ normOut[i].build1h      = <<canon>>
              /\ normOut[i].build72h     = <<canon>>
              /\ normOut[i].cleanup      = <<canon>>


----------------------------------------------------------------------------
(* Serving: the on-demand predictor (05_predict_pm25_for_time_next72h.py)  *)
(* and the forecast materializer                                           *)
(* (06_generate_and_store_next72h_forecast.py).                            *)
(* A user time is [lh, mi, sec, us, enc]: a timestamp string that also     *)
(* spells seconds and microseconds, "2026-01-05T04:59:59.999999Z"; enc is  *)
(* "sec" (naive), "Z", "utc0", "off5" or "bad".  Parsed, it is             *)
(* [min, sec, us]: the UTC minute, and the second and microsecond in it.   *)

UserTime(lh, mi, sec, us, enc) == [lh |-> lh, mi |-> mi, sec |-> sec, us |-> us, enc |-> enc]

\* parse_user_time_utc: TARGET_TIME_UTC (<<>> when unset) as a UTC datetime.
\* A trailing Z is rewritten to +00:00 before fromisoformat, a naive result
\* is taken as UTC, an offset is converted.
parse_user_time_utc(t) ==
    IF t = None THEN [status |-> "RuntimeError: TARGET_TIME_UTC", dt |-> None]
    ELSE IF Val(t).enc = "bad" THEN [status |-> "ValueError", dt |-> None]
    ELSE [status |-> "ok",
          dt |-> Some([min |-> Val(t).lh * 60 + Val(t).mi - OffsetOf(Val(t).enc),
                       sec |-> Val(t).sec, us |-> Val(t).us])]

\* h = int(math.floor(delta_hours + 1e-9)), delta_hours being
\* (user_time - base_time).total_seconds() / 3600.0: the whole hours of the
\* difference, and one more when the difference is within 1e-9 h, that is
\* 3.6 microseconds, below a whole hour
horizon(user_time, base_time) ==
    LET dmin == user_time.min - base_time
        secs == (dmin % 60) * 60 + user_time.sec
    IN  (dmin \div 60) + (IF secs = 3599 /\ 1000000 - user_time.us <= 3 THEN 1 ELSE 0)

\* feats.find_one({"timestamp": {"$lte": now_iso}}, sort=[("timestamp", -1)]):
\* the key that is last in string order among those not after now_iso
base_doc(featcol, now_iso) ==
    LET le == { k \in DOMAIN featcol : StrLeq(k, now_iso) }
        codes == { StrCode(k) : k \in le }
        top   == CHOOSE c \in codes : \A e \in codes : e <= c
    IN  IF le = {} THEN None ELSE Some(CHOOSE k \in le : StrCode(k) = top)

\* df[FEATURE_COLS].isna().any().any(); hour, day_of_week, is_weekend and
\* month are never null
isna(row) ==
    \E c \in {"pm2_5_lag_1h", "pm2_5_lag_3h", "pm2_5_lag_24h", "pm2_5_roll_mean_3h",
              "pm2_5_roll_mean_24h", "pm2_5_roll_std_24h", "pm2_5_diff_1h"} : row[c] = None

\* model.predict(X)[0]: 72 values (c5 units) that the fitted model m makes of
\* the feature row.  Model 1 rises from the row's lag_1h; model 2 falls from
\* 510 to below zero, through every band and the gap above 12.0.
predict(m, row) ==
    Stored([h \in 1..HORIZON_HOURS |->
        IF m = 1 THEN Val(row.pm2_5_lag_1h) * 100000 + h * 123452
        ELSE 51000000 - h * 803102])

\* round(pred_pm25, 4): the nearest multiple of 1e-4, that is of 10 c5 units;
\* no value of predict lies half-way between two
round4(v) == LET r == v % 10 IN IF r < 5 THEN v - r ELSE v + 10 - r

\* 06 iso_z of a UTC instant
iso_z(dt) == FormatZ(dt)

\* 05_predict_pm25_for_time_next72h.py main
predict_for_time(featcol, environ, clock, m) ==
    LET user     == parse_user_time_utc(environ.TARGET_TIME_UTC)
        now_iso  == FormatZ(HourFloor(clock))
        found    == base_doc(featcol, now_iso)
        parsed   == to_datetime_utc(Val(found))
        base_iso == FormatZ(Val(parsed))
        h        == horizon(Val(user.dt), Val(parsed))
        row      == featcol[base_iso]
        yhat     == predict(m, row)
        conv     == pm25_to_aqi_us(yhat[h])
        Fail(st, b, hh) == [status |-> st, user |-> user.dt, base |-> b, h |-> hh,
                            yhat |-> <<>>, pred |-> None, aqi |-> None, category |-> ""]
    IN  IF ~environ.MONGO_URI THEN Fail("RuntimeError: MONGO_URI", None, None)
        ELSE IF user.status # "ok" THEN Fail(user.status, None, None)
        ELSE IF found = None THEN Fail("RuntimeError: no feature rows", None, None)
        ELSE IF parsed = None THEN Fail("ValueError", None, None)
        ELSE IF h < 1 \/ h > HORIZON_HOURS THEN Fail("RuntimeError: horizon", Some(base_iso), Some(h))
        ELSE IF base_iso \notin DOMAIN featcol
             THEN Fail("RuntimeError: feature row not found", Some(base_iso), Some(h))
        ELSE IF isna(row) THEN Fail("RuntimeError: NaNs", Some(base_iso), Some(h))
        ELSE IF ~environ.model_file THEN Fail("RuntimeError: model file", Some(base_iso), Some(h))
        ELSE [status |-> "ok", user |-> user.dt, base |-> Some(base_iso), h |-> Some(h),
              yhat |-> yhat, pred |-> Some(yhat[h]), aqi |-> conv[1], category |-> conv[2]]

\* a loop that reads the vector at h instead of h - 1: horizon h gets the
\* vector's next element, the last horizon the last element again
forecast_doc_next(base_time, base_iso, h, yhat, now_iso) ==
    LET pred_pm25 == yhat[IF h < HORIZON_HOURS THEN h + 1 ELSE h]
        conv      == pm25_to_aqi_us(pred_pm25)
    IN  [ city             |-> "Karachi",
          base_time        |-> base_iso,
          horizon_hours    |-> h,
          target_time      |-> iso_z(base_time + 60 * h),
          predicted_pm2_5  |-> round4(pred_pm25),
          predicted_aqi_us |-> conv[1],
          category         |-> conv[2],
          created_at       |-> now_iso ]

\* the document the materializer's loop builds for horizon h
forecast_doc(base_time, base_iso, h, yhat, now_iso) ==
    LET pred_pm25 == yhat[h]
        conv      == pm25_to_aqi_us(pred_pm25)
    IN  [ city             |-> "Karachi",
          base_time        |-> base_iso,
          horizon_hours    |-> h,
          target_time      |-> iso_z(base_time + 60 * h),
          predicted_pm2_5  |-> round4(pred_pm25),
          predicted_aqi_us |-> conv[1],
          category         |-> conv[2],
          created_at       |-> now_iso ]

\* out.bulk_write(ops, ordered=False), ops[h] being the upsert of document
\* ops[h] under the filter (city, base_time, horizon_hours): the first stored
\* document that matches has the fields set, and where none matches the
\* document is inserted under a new id.  The filters of one run differ, so
\* the order of the operations does not matter.
bulk_write(col, ops, run) ==
    LET Match(h) == { d \in col : /\ d.city = ops[h].city
                                  /\ d.base_time = ops[h].base_time
                                  /\ d.horizon_hours = ops[h].horizon_hours }
        First(S) == CHOOSE d \in S : \A e \in S : d.id <= e.id
        hit      == { h \in DOMAIN ops : Match(h) # {} }
    IN  (col \ { First(Match(h)) : h \in hit })
            \cup { SetFields(First(Match(h)), ops[h]) : h \in hit }
            \cup { Extend(ops[h], [id |-> run * 100 + h]) : h \in (DOMAIN ops) \ hit }

\* 06_generate_and_store_next72h_forecast.py main
generate_and_store(featcol, fc, environ, clock, m, run) ==
    LET now_iso  == iso_z(HourFloor(clock))
        found    == base_doc(featcol, now_iso)
        parsed   == to_datetime_utc(Val(found))
        base_iso == iso_z(Val(parsed))
        row      == featcol[base_iso]
        yhat     == predict(m, row)
        ops      == Stored([h \in 1..HORIZON_HOURS |-> forecast_doc(Val(parsed), base_iso, h, yhat, now_iso)])
        Fail(st) == [status |-> st, base |-> None, yhat |-> <<>>, col |-> fc]
    IN  IF ~environ.MONGO_URI THEN Fail("RuntimeError: MONGO_URI")
        ELSE IF ~environ.model_file THEN Fail("RuntimeError: model file")
        ELSE IF found = None THEN Fail("RuntimeError: no feature rows")
        ELSE IF parsed = None THEN Fail("ValueError")
        ELSE IF base_iso \notin DOMAIN featcol THEN Fail("RuntimeError: feature row not found")
        ELSE IF isna(row) THEN Fail("RuntimeError: NaNs")
        ELSE [status |-> "ok", base |-> Some(base_iso), yhat |-> yhat, col |-> bulk_write(fc, ops, run)]

----------------------------------------------------------------------------
(* Serving over a feature store the 72h builder wrote at ten past hour     *)
(* min_needed - 1, from the hourly readings of the hours before.           *)

\* what the raw collection held besides clean hourly readings
ServeOdd == {{}, {"nullpm"}, {"future"}}

BuildClock == 60 * (min_needed - 1) + 10

FeatureStore(odd) ==
    build_72h(AsCollection(RawDocs(min_needed, odd)), EmptyCol, Configured, BuildClock, 0).col

Environments ==
    {Configured, [Configured EXCEPT !.MONGO_URI = FALSE], [Configured EXCEPT !.model_file = FALSE]}

\* the clock moves on by half an hour at most MaxServeTicks times
MaxServeTicks == 3

\* the state the build left, under a process environment of envs
InitServing(envs) ==
    /\ \E odd \in ServeOdd :
         /\ raw = AsCollection(RawDocs(min_needed, odd))
         /\ feat72 = FeatureStore(odd)
    /\ now = BuildClock
    /\ env \in envs
    /\ pyIsoZ = TRUE
    /\ raw72 = EmptyCol
    /\ ingOut = <<>>
    /\ ingRuns = 0
    /\ lastPm = <<>>
    /\ feat1h = EmptyCol
    /\ buildOut = <<>>
    /\ AqiIdle
    /\ NormIdle
    /\ ServeIdle

TickServe ==
    /\ now < BuildClock + 30 * MaxServeTicks
    /\ now' = now + 30
    /\ UNCHANGED <<auxVars, serveVars, aqiVars, normVars, ingestVars, buildVars, pyIsoZ, env>>

\* training replaces the model file by the other fitted model
Retrain ==
    /\ model' = 3 - model
    /\ env' = [env EXCEPT !.model_file = TRUE]
    /\ UNCHANGED <<auxVars, forecast, predOut, matOut, aqiVars, normVars, ingestVars, buildVars,
                   pyIsoZ, now>>

----------------------------------------------------------------------------
(* On-demand predictions *)

\* queries reach back QueryBack hours before hour min_needed - 1 and ahead to
\* QueryAhead hours after it
QueryBack == 2

QueryAhead == 75

QueryHours == { min_needed - 1 + d : d \in ((0 - QueryBack)..2) \cup (70..QueryAhead) }

\* how far into its hour a query is: <<minute, second, microsecond>>
IntoTheHour ==
    {<<0, 0, 0>>, <<30, 0, 0>>, <<59, 0, 0>>, <<59, 59, 0>>, <<59, 59, 999996>>, <<59, 59, 999999>>}

\* TARGET_TIME_UTC: unset, malformed, or an instant spelt naive, with Z or
\* with +05:00, on or off the hour, down to the microsecond
TargetTimes ==
    {None, Some(UserTime(0, 0, 0, 0, "bad"))}
        \cup { Some(UserTime(hr + (OffsetOf(enc) \div 60), o[1], o[2], o[3], enc)) :
                 hr \in QueryHours, o \in IntoTheHour, enc \in {"sec", "Z", "off5"} }

InitAlign ==
    InitServing({ [e EXCEPT !.TARGET_TIME_UTC = t] : e \in Environments, t \in TargetTimes })

\* one run of 05_predict_pm25_for_time_next72h.py
Predict ==
    /\ \E r \in { predict_for_time(feat72, env, now, model) } :
           predOut' = Extend(r, [clock |-> now])
    /\ UNCHANGED <<auxVars, model, forecast, matOut, aqiVars, normVars, ingestVars, buildVars,
                   pyIsoZ, now, env>>

\* the clock moves on by an hour at most MaxAlignTicks times
MaxAlignTicks == 1

TickAlign ==
    /\ now < BuildClock + 60 * MaxAlignTicks
    /\ now' = now + 60
    /\ UNCHANGED <<auxVars, serveVars, aqiVars, normVars, ingestVars, buildVars, pyIsoZ, env>>

NextAlign == Predict \/ TickAlign

SpecAlign == InitAlign /\ [][NextAlign]_vars

\* the run got as far as computing a horizon
HorizonComputed == predOut # <<>> /\ predOut.h # None

\* floor((Q - B) / 1 hour) of the last query and its base_time
FloorHours == (Val(predOut.user).min - InstantOf(Val(predOut.base))) \div 60

\* the predictor's answer is the one the floor of (Q - B) / 1 hour asks for
Aligned ==
    /\ (predOut.status = "RuntimeError: horizon") <=> ~(1 <= FloorHours /\ FloorHours <= HORIZON_HOURS)
    /\ predOut.status = "ok" =>
          /\ predOut.h = Some(FloorHours)
          /\ predOut.pred = Some(predOut.yhat[FloorHours])

\* C1: for every base_time B and query instant Q the horizon is
\* h = floor((Q - B) / 1 hour); the request is answered from element h - 1 of
\* the prediction vector if and only if 1 <= h <= 72, and is otherwise
\* rejected as out of range.
C1_HorizonAlignment == HorizonComputed => Aligned

\* the same for the queries that name a whole second
AlignedOnWholeSeconds == (HorizonComputed /\ Val(predOut.user).us = 0) => Aligned

----------------------------------------------------------------------------
(* Materializer runs *)

\* at most MaxMatRuns runs of the materializer
MaxMatRuns == 2

MatRuns == IF matOut = <<>> THEN 0 ELSE matOut.run

\* one run of 06_generate_and_store_next72h_forecast.py
Materialize ==
    /\ MatRuns < MaxMatRuns
    /\ \E r \in { generate_and_store(feat72, forecast, env, now, model, MatRuns + 1) } :
           /\ forecast' = r.col
           /\ matOut' = [status |-> r.status, base |-> r.base, yhat |-> r.yhat,
                         clock |-> now, run |-> MatRuns + 1, before |-> forecast,
                         prev |-> IF matOut = <<>> THEN <<>>
                                  ELSE [status |-> matOut.status, base |-> matOut.base,
                                        yhat |-> matOut.yhat, clock |-> matOut.clock]]
    /\ UNCHANGED <<auxVars, model, predOut, aqiVars, normVars, ingestVars, buildVars, pyIsoZ, now, env>>

NextServe == Materialize \/ TickServe \/ Retrain

InitServe == InitServing(Environments)

SpecServe == InitServe /\ [][NextServe]_vars

\* the stored forecast points of a base_time
PointsOf(base_iso) == { d \in forecast : d.base_time = base_iso }

\* the last run and the one before it both succeeded, on one base_time and
\* one prediction vector
SameRunTwice ==
    /\ matOut # <<>>
    /\ matOut.status = "ok"
    /\ matOut.prev # <<>>
    /\ matOut.prev.status = "ok"
    /\ matOut.prev.base = matOut.base
    /\ matOut.prev.yhat = matOut.yhat

\* C4: a second run of the materializer on the same base_time and the same
\* prediction vector, at whatever wall-clock time, leaves one document per
\* (city, base_time, horizon) and every field of every stored document as the
\* first run left it.
C4_RerunIdempotent ==
    SameRunTwice =>
        /\ \A d, e \in forecast :
              (d.city = e.city /\ d.base_time = e.base_time /\ d.horizon_hours = e.horizon_hours)
                  => d = e
        /\ forecast = matOut.before

\* the same for a second run within the clock hour of the first
RerunWithinTheHourIdempotent ==
    (SameRunTwice /\ HourFloor(matOut.prev.clock) = HourFloor(matOut.clock)) =>
        forecast = matOut.before

\* C5: a successful run stores exactly 72 forecast points for its base_time,
\* one per horizon h in 1..72, with target_time = base_time + h hours, the
\* predicted value that of element h - 1 of the prediction vector (rounded to
\* four decimals) and (aqi, category) the converter's result for that element.
C5_SeventyTwoPoints ==
    (matOut # <<>> /\ matOut.status = "ok") =>
        LET pts == PointsOf(Val(matOut.base))
            B   == InstantOf(Val(matOut.base))
        IN  /\ Cardinality(pts) = 72
            /\ \A h \in 1..72 :
                 \E d \in pts :
                    /\ d.horizon_hours = h
                    /\ d.target_time = FormatZ(B + 60 * h)
                    /\ d.predicted_pm2_5 = round4(matOut.yhat[h])
                    /\ <<d.predicted_aqi_us, d.category>> = pm25_to_aqi_us(matOut.yhat[h])

\* a second successful run, on a later base_time than the first
C5_Witness ==
    /\ matOut # <<>>
    /\ matOut.status = "ok"
    /\ matOut.prev # <<>>
    /\ matOut.prev.status = "ok"
    /\ matOut.prev.base # matOut.base
    /\ \E d \in PointsOf(Val(matOut.base)) : d.category = "Unknown"

\* the feature rows at or before the run's clock hour whose required
\* features are all non-null
CompleteRows(clock) ==
    { k \in DOMAIN feat72 : InstantOf(k) <= HourFloor(clock) /\ ~isna(feat72[k]) }

\* the last materializer run found its configuration and its model file
MatConfigured ==
    /\ matOut # <<>>
    /\ matOut.status \notin {"RuntimeError: MONGO_URI", "RuntimeError: model file"}

\* C15: the base row is the most recent FeatureRow at or before now_hour
\* whose required features are all non-null: where the latest row has a null
\* feature and an older row is complete, the older row is the base_time and a
\* forecast is produced.
C15_BaseRowComplete ==
    (MatConfigured /\ CompleteRows(matOut.clock) # {}) =>
        /\ matOut.status = "ok"
        /\ matOut.base # None
        /\ Val(matOut.base) \in CompleteRows(matOut.clock)
        /\ \A k \in CompleteRows(matOut.clock) : InstantOf(k) <= InstantOf(Val(matOut.base))

----------------------------------------------------------------------------
(* Cleanup of future documents (00_cleanup_future_raw.py) *)

\* the documents whose ts_parsed is not NaT and later than pd.Timestamp(now)
future_ids(rawcol, clock) ==
    { k \in DOMAIN rawcol : normalize_ts(k) # None /\ Val(normalize_ts(k)) > clock }

\* delete_many({"_id": {"$in": ids}})
delete_many(col, ids) == [k \in (DOMAIN col) \ ids |-> col[k]]

\* 00_cleanup_future_raw.py main
cleanup(rawcol, environ, clock) ==
    IF ~environ.MONGO_URI THEN [status |-> "RuntimeError: MONGO_URI", deleted |-> {}, col |-> rawcol]
    ELSE IF DOMAIN rawcol = {} THEN [status |-> "ok", deleted |-> {}, col |-> rawcol]
    ELSE [status |-> "ok", deleted |-> future_ids(rawcol, clock),
          col |-> delete_many(rawcol, future_ids(rawcol, clock))]

\* keys the raw collection may hold when cleanup runs at ten past hour 3:
\* past and current hours, later minutes of the current hour, later hours,
\* +05:00 spellings of past hours, an unparsable key
CleanupKeys ==
    { TsString(1, 0, "Z"), TsString(3, 0, "nosec"), TsString(3, 30, "nosec"),
      TsString(4, 0, "Z"), TsString(5, 0, "sec"), TsString(9, 0, "utc0"),
      TsString(8, 0, "off5"), TsString(6, 0, "off5"), BadString }

\* the raw collection holds at most MaxRawDocs documents
MaxRawDocs == 3

\* at most MaxCleanups cleanup runs
MaxCleanups == 2

InitCleanup ==
    /\ \E keys \in SUBSET CleanupKeys :
         /\ Cardinality(keys) <= MaxRawDocs
         /\ raw = [k \in keys |-> RawDoc(k, Some(10), 0)]
    /\ now = ClockStart
    /\ env \in {Configured, [Configured EXCEPT !.MONGO_URI = FALSE]}
    /\ pyIsoZ = TRUE
    /\ raw72 = EmptyCol
    /\ ingOut = <<>>
    /\ ingRuns = 0
    /\ lastPm = <<>>
    /\ BuildIdle
    /\ AqiIdle
    /\ NormIdle
    /\ ServeIdle

CleanupsDone == IF cleanOut = <<>> THEN 0 ELSE cleanOut.run

\* one run of 00_cleanup_future_raw.py
Cleanup ==
    /\ CleanupsDone < MaxCleanups
    /\ \E r \in { cleanup(raw, env, now) } :
           /\ raw' = r.col
           /\ cleanOut' = [status |-> r.status, deleted |-> r.deleted, clock |-> now,
                           run |-> CleanupsDone + 1, before |-> raw,
                           first |-> IF cleanOut = <<>> THEN raw ELSE cleanOut.first]
    /\ UNCHANGED <<race, readOut, serveVars, aqiVars, normVars, buildVars, pyIsoZ, now, env,
                   raw72, ingOut, ingRuns, lastPm>>

NextCleanup == Cleanup \/ TickIngest

SpecCleanup == InitCleanup /\ [][NextCleanup]_vars

\* C19: a cleanup run deletes exactly the documents whose parsed instant is
\* later than the wall-clock time of the run and leaves the others as they
\* were: no Reading at or before now and no document with an unparsable
\* timestamp is deleted, and a second run right after the first deletes
\* nothing.
C19_DeletesExactlyFuture ==
    (cleanOut # <<>> /\ cleanOut.status = "ok") =>
        /\ DOMAIN raw = { k \in DOMAIN cleanOut.before :
                            k.enc = "bad" \/ InstantOf(k) <= cleanOut.clock }
        /\ \A k \in DOMAIN raw : raw[k] = cleanOut.before[k]
        /\ cleanOut.run > 1 => raw = cleanOut.before

\* a second run, after a first that deleted a document and kept an
\* unparsable one and one spelt with +05:00
C19_Witness ==
    /\ cleanOut # <<>>
    /\ cleanOut.status = "ok"
    /\ cleanOut.run = 2
    /\ DOMAIN cleanOut.first # DOMAIN raw
    /\ BadString \in DOMAIN raw
    /\ \E k \in DOMAIN raw : k.enc = "off5"

----------------------------------------------------------------------------
(* A pipeline cycle: the feature builders, then the serving stages, over   *)
(* raw collections with too little and with enough history                 *)

\* TARGET_TIME_UTC of a cycle whose newest reading is hour n - 1: unset, two
\* hours ahead, one hour beyond the last horizon
CycleTargets(n) ==
    { None, Some(UserTime(n + 1, 0, 0, 0, "Z")),
      Some(UserTime(n + HORIZON_HOURS, 0, 0, 0, "Z")) }

InitCycle ==
    /\ \E n \in RawSizes, odd \in {{}, {"nullpm"}} :
         /\ raw = AsCollection(RawDocs(n, odd))
         /\ now = 60 * (n - 1) + 10
         /\ env \in { [e EXCEPT !.TARGET_TIME_UTC = t] : e \in Environments, t \in CycleTargets(n) }
    /\ pyIsoZ = TRUE
    /\ raw72 = EmptyCol
    /\ ingOut = <<>>
    /\ ingRuns = 0
    /\ lastPm = <<>>
    /\ BuildIdle
    /\ AqiIdle
    /\ NormIdle
    /\ ServeIdle

\* no serving stage has run in this cycle yet
Building == predOut = <<>> /\ matOut = <<>>

\* one run of 05_predict_pm25_for_time_next72h.py, at most once an hour
PredictOnce ==
    /\ (IF predOut = <<>> THEN TRUE ELSE predOut.clock # now)
    /\ Predict

\* the cycle starts ten minutes into an hour and ends forty minutes into it
TickCycle ==
    /\ now % 60 < 30
    /\ now' = now + 30
    /\ UNCHANGED <<auxVars, serveVars, aqiVars, normVars, ingestVars, buildVars, pyIsoZ, env>>

\* one run of 06_generate_and_store_next72h_forecast.py, at most once an hour
MaterializeOnce ==
    /\ (IF matOut = <<>> THEN TRUE ELSE matOut.clock # now)
    /\ Materialize

\* the builders run before the serving stages of the cycle, and neither runs
\* twice in a row
CycleBuild1h ==
    /\ Building
    /\ (IF buildOut = <<>> THEN TRUE ELSE buildOut.script # "1h")
    /\ Build1h

CycleBuild72h ==
    /\ Building
    /\ (IF buildOut = <<>> THEN TRUE ELSE buildOut.script # "72h")
    /\ Build72h

NextCycle ==
    \/ CycleBuild1h
    \/ CycleBuild72h
    \/ PredictOnce
    \/ MaterializeOnce
    \/ TickCycle

SpecCycle == InitCycle /\ [][NextCycle]_vars

\* C16: a run of a feature builder, of the on-demand predictor or of the
\* materializer that ends in a fatal condition (missing configuration,
\* insufficient history, missing model artifact, no base row, incomplete
\* base row, horizon out of range) has changed no document: the raw, feature
\* and forecast collections are as they were before the run.
C16_AbortWritesNothing ==
    [][(\/ (buildOut' # buildOut /\ buildOut'.status # "ok")
        \/ (predOut' # predOut /\ predOut'.status # "ok")
        \/ (matOut' # matOut /\ matOut'.status # "ok"))
          => UNCHANGED <<raw, raw72, feat1h, feat72, forecast>>]_vars

\* the 72h builder gave up for lack of history over a feature store the 1h
\* builder had filled, and then the materializer and the predictor gave up
C16_Witness ==
    /\ buildOut # <<>>
    /\ buildOut.script = "72h"
    /\ buildOut.status = "RuntimeError: not enough raw data"
    /\ feat1h # EmptyCol
    /\ feat72 = EmptyCol
    /\ matOut # <<>>
    /\ matOut.status = "RuntimeError: no feature rows"
    /\ predOut # <<>>
    /\ predOut.status = "RuntimeError: no feature rows"
    /\ forecast = {}

----------------------------------------------------------------------------
(* Two runs of one stage at a time.  Each run has read its input and       *)
(* issues its upserts one by one; the store applies one upsert at a time.  *)
(* race = [stage, ops, pc, last]: ops[r] is the sequence of upserts of     *)
(* run r ([key, doc]), pc[r] how many of them the store has applied, and   *)
(* last[k] the run and document of the upsert applied last under key k.    *)

\* the upserts of the loop of 01_ingest_raw_karachi.py main from index i on
RECURSIVE ingest_ops(_, _, _)
ingest_ops(payload, i, clock) ==
    IF i > Len(payload.time) THEN <<>>
    ELSE LET t_dt == parse_utc_hour(payload.time[i])
         IN  IF t_dt = None THEN <<>>
             ELSE IF DtInstant(t_dt[1]) > floor_to_hour(clock)
                  THEN ingest_ops(payload, i + 1, clock)
             ELSE LET doc == [timestamp   |-> IsoformatZ(t_dt[1]),
                              pm2_5       |-> payload.pm2_5[i],
                              ingested_at |-> clock]
                  IN  <<[key |-> doc.timestamp, doc |-> doc]>> \o ingest_ops(payload, i + 1, clock)

\* the upserts of the loop of 02_build_features_pm25_next1h.py main
build_1h_ops(rawcol, environ, clock) ==
    LET r == build_1h(rawcol, EmptyCol, environ, clock)
    IN  Stored([i \in 1..Len(r.rows) |->
            [key |-> FeatureDoc1h(r.rows, i, clock).timestamp, doc |-> FeatureDoc1h(r.rows, i, clock)]])

\* the upserts of the loop of 02_build_features_pm25_next72h.py main
build_72h_ops(rawcol, environ, clock) ==
    LET r == build_72h(rawcol, EmptyCol, environ, clock, 0)
    IN  Stored([i \in 1..Len(r.rows) |->
            [key |-> FeatureDoc72h(r.rows, i, clock).timestamp, doc |-> FeatureDoc72h(r.rows, i, clock)]])

\* the UpdateOne operations 06 main hands to bulk_write, in the order the
\* server applies them: ordered=False leaves the order to the server
forecast_ops(featcol, environ, clock, m, order) ==
    LET r    == generate_and_store(featcol, {}, environ, clock, m, 0)
        at(h) == CHOOSE d \in r.col : d.horizon_hours = h
        doc(h) == [f \in (DOMAIN at(h)) \ {"id"} |-> at(h)[f]]
        n    == Cardinality(r.col)
    IN  Stored([i \in 1..n |->
            LET h == IF order = "ascending" THEN i ELSE n + 1 - i
            IN  [key |-> <<doc(h).base_time, h>>, doc |-> doc(h)]])

\* the fields of a stored forecast point that an upsert sets
Fields(d) == [f \in (DOMAIN d) \ {"id"} |-> d[f]]

\* the strings of a racing payload: hour 1, the same instant spelt with
\* +05:00, hour 2, and an unparsable string
RaceStrings == { TsString(1, 0, "nosec"), TsString(6, 0, "off5"), TsString(2, 0, "nosec"), BadString }

RacePayloads(run) ==
    { [time |-> ts, pm2_5 |-> [i \in 1..Len(ts) |-> Some(10 * run + i)]] :
        ts \in SeqsUpTo(RaceStrings, MaxPayload) \ { <<>> } }

Racing(stage, ops1, ops2) ==
    [stage |-> stage, ops |-> <<ops1, ops2>>, pc |-> <<0, 0>>, last |-> EmptyCol]

\* two ingest runs, a minute apart, each with its own payload
InitRaceIngest ==
    /\ now = ClockStart + 1
    /\ env = Configured
    /\ IngestIdle
    /\ BuildIdle
    /\ model = 1 /\ forecast = {} /\ predOut = <<>> /\ matOut = <<>>
    /\ \E p1 \in RacePayloads(1), p2 \in RacePayloads(2) :
         race = Racing("ingest", ingest_ops(p1, 1, ClockStart), ingest_ops(p2, 1, ClockStart + 1))

\* the start of the last hour of a raw collection of n readings
HourOfNewest(n) == 60 * (n - 1)

\* two runs of the 1h builder over one raw collection, started within the
\* hour at minutes first and second
InitRaceBuild ==
    /\ \E odd \in {{}, {"dup"}}, second \in {10, 11} :
         /\ raw = AsCollection(RawDocs(30, odd))
         /\ now = HourOfNewest(30) + second
         /\ race = Racing("build", build_1h_ops(raw, Configured, HourOfNewest(30) + 10),
                                   build_1h_ops(raw, Configured, now))
    /\ env = Configured
    /\ raw72 = EmptyCol /\ ingOut = <<>> /\ ingRuns = 0 /\ lastPm = <<>>
    /\ BuildIdle
    /\ model = 1 /\ forecast = {} /\ predOut = <<>> /\ matOut = <<>>

\* two runs of the 72h builder over one raw collection, a minute apart
InitRaceBuild72 ==
    /\ raw = AsCollection(RawDocs(min_needed, {}))
    /\ now = BuildClock + 1
    /\ race = Racing("build72", build_72h_ops(raw, Configured, BuildClock),
                                build_72h_ops(raw, Configured, BuildClock + 1))
    /\ env = Configured
    /\ raw72 = EmptyCol /\ ingOut = <<>> /\ ingRuns = 0 /\ lastPm = <<>>
    /\ BuildIdle
    /\ model = 1 /\ forecast = {} /\ predOut = <<>> /\ matOut = <<>>

\* two runs of the materializer over one feature store: the second with the
\* retrained model, or an hour later
InitRaceMaterialize ==
    /\ raw = AsCollection(RawDocs(min_needed, {}))
    /\ feat72 = FeatureStore({})
    /\ feat1h = EmptyCol /\ buildOut = <<>>
    /\ env = Configured
    /\ raw72 = EmptyCol /\ ingOut = <<>> /\ ingRuns = 0 /\ lastPm = <<>>
    /\ forecast = {} /\ predOut = <<>> /\ matOut = <<>>
    /\ \E second \in { [clock |-> BuildClock, model |-> 2], [clock |-> BuildClock + 60, model |-> 1] },
          order \in {"ascending", "descending"} :
         /\ now = second.clock
         /\ model = second.model
         /\ race = Racing("materialize",
                          forecast_ops(feat72, env, BuildClock, 1, "ascending"),
                          forecast_ops(feat72, env, second.clock, second.model, order))

InitRace ==
    /\ pyIsoZ = TRUE
    /\ AqiIdle
    /\ NormIdle
    /\ cleanOut = <<>>
    /\ readOut = <<>>
    /\ (InitRaceIngest \/ InitRaceBuild \/ InitRaceBuild72 \/ InitRaceMaterialize)

\* run 2 starts when run 1 has at most MaxOverlap upserts left
MaxOverlap == 2

\* run r has an upsert left, and may issue it
MayStep(r) ==
    /\ race.pc[r] < Len(race.ops[r])
    /\ r = 2 => Len(race.ops[1]) - race.pc[1] <= MaxOverlap

\* the upsert run r issues next
NextOp(r) == race.ops[r][race.pc[r] + 1]

\* race after the store applied the next upsert of run r
Applied(r) ==
    [race EXCEPT !.pc[r] = @ + 1,
                 !.last = [k \in (DOMAIN race.last) \cup {NextOp(r).key} |->
                              IF k = NextOp(r).key THEN [run |-> r, doc |-> NextOp(r).doc]
                              ELSE race.last[k]]]

\* raw_col.update_one(..., upsert=True) of an ingest run
StepIngest ==
    /\ race # <<>>
    /\ race.stage = "ingest"
    /\ \E r \in {1, 2} :
         /\ MayStep(r)
         /\ raw' = UpdateOne(raw, NextOp(r).key, NextOp(r).doc)
         /\ race' = Applied(r)
    /\ UNCHANGED <<cleanOut, readOut, serveVars, aqiVars, normVars, buildVars, pyIsoZ, now, env,
                   raw72, ingOut, ingRuns, lastPm>>

\* feat_col.update_one(..., upsert=True) of a build run
StepBuild ==
    /\ race # <<>>
    /\ race.stage = "build"
    /\ \E r \in {1, 2} :
         /\ MayStep(r)
         /\ feat1h' = UpdateOne(feat1h, NextOp(r).key, NextOp(r).doc)
         /\ race' = Applied(r)
    /\ UNCHANGED <<cleanOut, readOut, serveVars, aqiVars, normVars, ingestVars, pyIsoZ, now, env,
                   feat72, buildOut>>

\* feat_col.update_one(..., upsert=True) of a 72h build run
StepBuild72 ==
    /\ race # <<>>
    /\ race.stage = "build72"
    /\ \E r \in {1, 2} :
         /\ MayStep(r)
         /\ feat72' = UpdateOne(feat72, NextOp(r).key, NextOp(r).doc)
         /\ race' = Applied(r)
    /\ UNCHANGED <<cleanOut, readOut, serveVars, aqiVars, normVars, ingestVars, pyIsoZ, now, env,
                   feat1h, buildOut>>

\* one UpdateOne of a materializer's bulk_write; a reader between its two
\* queries goes on, an answer the reader gave is of the store as it was
StepMaterialize ==
    /\ race # <<>>
    /\ race.stage = "materialize"
    /\ \E r \in {1, 2} :
         /\ MayStep(r)
         /\ forecast' = bulk_write(forecast, (NextOp(r).key[2] :> NextOp(r).doc), r)
         /\ race' = Applied(r)
    /\ readOut' = (IF readOut # <<>> /\ readOut.at = "find" THEN readOut ELSE <<>>)
    /\ UNCHANGED <<cleanOut, model, predOut, matOut, aqiVars, normVars, ingestVars, buildVars,
                   pyIsoZ, now, env>>

----------------------------------------------------------------------------
(* The forecast reader (07_get_forecast_next72h.py)                        *)

\* col.find_one({"city": CITY}, sort=[("base_time", -1)]): the base_time that
\* is last in string order, <<>> when the collection holds no document
latest_base_time(fc) ==
    LET codes == { StrCode(d.base_time) : d \in fc }
        top   == CHOOSE c \in codes : \A e \in codes : e <= c
    IN  IF fc = {} THEN None ELSE Some((CHOOSE d \in fc : StrCode(d.base_time) = top).base_time)

\* list(col.find({"city": CITY, "base_time": base_time}, {"_id": 0})
\*          .sort("horizon_hours", 1)): documents of one horizon in id order
find_rows(fc, base_time) ==
    LET found  == { d \in fc : d.base_time = base_time }
        sorted == SortedBy(found, Stored([d \in found |-> d.horizon_hours * 1000 + d.id]))
    IN  Stored([i \in 1..Len(sorted) |-> Fields(sorted[i])])

\* the result main prints, or the error it raises over no rows
result(base_time, rows) ==
    IF Len(rows) = 0
    THEN [at |-> "done", status |-> "RuntimeError: 0 rows", base_time |-> base_time, count |-> 0,
          forecast |-> <<>>]
    ELSE [at |-> "done", status |-> "ok", base_time |-> base_time, count |-> Len(rows),
          forecast |-> rows]

\* main up to its first query: the reader holds the latest base_time
ReadLatest ==
    /\ race # <<>>
    /\ race.stage = "materialize"
    /\ readOut = <<>>
    /\ env.MONGO_URI
    /\ readOut' = (IF latest_base_time(forecast) = None
                   THEN [at |-> "done", status |-> "RuntimeError: no forecast documents",
                         base_time |-> None, count |-> 0, forecast |-> <<>>]
                   ELSE [at |-> "find", base_time |-> Val(latest_base_time(forecast))])
    /\ UNCHANGED <<cleanOut, race, serveVars, aqiVars, normVars, ingestVars, buildVars, pyIsoZ, now, env>>

\* main from its second query on
ReadRows ==
    /\ readOut # <<>>
    /\ readOut.at = "find"
    /\ readOut' = result(readOut.base_time, find_rows(forecast, readOut.base_time))
    /\ UNCHANGED <<cleanOut, race, serveVars, aqiVars, normVars, ingestVars, buildVars, pyIsoZ, now, env>>

NextRace == StepIngest \/ StepBuild \/ StepBuild72 \/ StepMaterialize \/ ReadLatest \/ ReadRows

SpecRace == InitRace /\ [][NextRace]_vars

\* the collection the racing stage writes, as the set of its documents
RaceStore ==
    CASE race.stage = "ingest" -> { raw[k] : k \in DOMAIN raw }
      [] race.stage = "build" -> { feat1h[k] : k \in DOMAIN feat1h }
      [] race.stage = "build72" -> { feat72[k] : k \in DOMAIN feat72 }
      [] OTHER -> { Fields(d) : d \in forecast }

\* the key of a stored document
RaceKey(d) == IF race.stage = "materialize" THEN <<d.base_time, d.horizon_hours>> ELSE d.timestamp

\* both runs have issued all their upserts
Finished == race # <<>> /\ \A r \in {1, 2} : race.pc[r] = Len(race.ops[r])

\* C17: after two concurrent runs of one stage (ingest, feature build or
\* forecast materialization) over a store that applies each upsert
\* atomically, the store holds exactly one document per key, and it is
\* exactly the document of the upsert applied last under that key: no
\* document mixes fields of the two runs.
C17_LastWriteWins ==
    Finished =>
        /\ { RaceKey(d) : d \in RaceStore } = DOMAIN race.last
        /\ Cardinality(IF race.stage = "materialize" THEN forecast ELSE RaceStore)
              = Cardinality(DOMAIN race.last)
        /\ \A d \in RaceStore :
              /\ d = race.last[RaceKey(d)].doc
              /\ \E i \in 1..Len(race.ops[race.last[RaceKey(d)].run]) :
                    race.ops[race.last[RaceKey(d)].run][i].doc = d

\* both runs wrote two keys with different documents, and each run's upsert
\* came last under one of them
C17_Witness ==
    /\ Finished
    /\ \E k1, k2 \in DOMAIN race.last :
         /\ race.last[k1].run = 1
         /\ race.last[k2].run = 2
         /\ \A k \in {k1, k2} : \A r \in {1, 2} :
               \E i \in 1..Len(race.ops[r]) : race.ops[r][i].key = k
         /\ \E i \in 1..Len(race.ops[2]) :
               race.ops[2][i].key = k1 /\ race.ops[2][i].doc # race.last[k1].doc
         /\ \E i \in 1..Len(race.ops[1]) :
               race.ops[1][i].key = k2 /\ race.ops[1][i].doc # race.last[k2].doc

\* the reader returned a result
Returned == readOut # <<>> /\ readOut.at = "done" /\ readOut.status = "ok"

\* C18: whenever the forecast reader returns a result, also while a
\* materializer's bulk write is in progress, the result holds exactly 72
\* points of the latest base_time in the store, with horizons 1..72 in
\* ascending order, all written by one materializer run.
C18_CompleteForecast ==
    Returned =>
        /\ readOut.count = HORIZON_HOURS
        /\ Len(readOut.forecast) = HORIZON_HOURS
        /\ Some(readOut.base_time) = latest_base_time(forecast)
        /\ \A h \in 1..HORIZON_HOURS :
              /\ readOut.forecast[h].horizon_hours = h
              /\ readOut.forecast[h].base_time = readOut.base_time
        /\ \E r \in {1, 2} : \A h \in 1..HORIZON_HOURS :
              \E i \in 1..Len(race.ops[r]) : race.ops[r][i].doc = readOut.forecast[h]

============================================================================
